---- MODULE Spec2Model ----
(***************************************************************************)
(* A model of the minesweeper engine: the square field (cells, mine        *)
(* placement and relocation, adjacency, flood fill, clone, snapshot) and   *)
(* the GameEngine (revealCell / toggleFlag previews and their apply())     *)
(* and the Solver (solve, isGuessingState, createConnectedRegions) over a  *)
(* field of its own.                                                       *)
(*                                                                         *)
(* Field objects live in a heap and are named by references, as in the     *)
(* program: this.field and every result's operatedField are references,    *)
(* cloneSelf allocates a new object, apply() swaps a reference.            *)
(***************************************************************************)
EXTENDS Integers, Sequences, FiniteSets, TLC

(* ------------------------------ bounds -------------------------------- *)

\* largest number of rows of a board
MaxRows == 2
\* largest number of columns of a board
MaxCols == 3
\* largest number of cells of a board
MaxCells == 6
\* largest number of cells of a board that holds more than one mine
MaxDenseCells == 4
\* largest configured mine count
MaxMines == 2
\* number of revealCell / toggleFlag calls made on one engine
MaxCalls == 3
\* largest number of cells of a board whose engine takes MaxSmallCalls calls
MaxSmallCells == 3
\* number of revealCell / toggleFlag calls made on the engine of such a board
MaxSmallCalls == 4
\* largest number of flagged cells of the data a Solver is constructed with
MaxSolverFlags == 1
\* largest ceiling on the variables of a region that is looked for
MaxCeiling == 3
\* largest number of columns of the board of a Solver
MaxSolverCols == 6
\* number of passes of the loop of solve() that are explored
MaxPasses == 8

(* ------------------------------ state --------------------------------- *)

VARIABLES
    params,          \* GameParams: [rows, cols, mines]
    heap,            \* reference -> field object [grid, isMined]
    field,           \* GameEngine.field: a reference into heap
    status,          \* GameEngine.status
    flagsRemaining,  \* GameEngine.flagsRemaining
    results,         \* the ActionResult objects returned so far, in call order
    pc,              \* where the constructor is: "placeMines", "loop", "return",
                     \* then "ready" (GameEngine) or "solver" (Solver)
    avoidSet,        \* placeMines: the positions already chosen
    minesPlacedCount, \* placeMines: the loop counter
    solver           \* the Solver: where its call is, the locals of solve() and
                     \* the number of passes its loop has begun

vars == <<params, heap, field, status, flagsRemaining, results, pc,
          avoidSet, minesPlacedCount, solver>>

(* ------------------------------ types --------------------------------- *)

\* GameStatus (types, enum GameStatus); Unset is the field before the
\* constructor assigns it
Idle == "idle"
Playing == "playing"
Won == "won"
Lost == "lost"
Unset == "unset"

\* Position: { col, row }
Position(row, col) == [row |-> row, col |-> col]

\* every position of the grid, createGrid(rows, cols, ...)
Pos == { Position(r, c) : r \in 0 .. params.rows - 1, c \in 0 .. params.cols - 1 }

\* the configurations an engine is constructed with; placeMines needs
\* mines <= rows * cols to return
Configs ==
    { [rows |-> r, cols |-> c, mines |-> m] :
        r \in 1 .. MaxRows, c \in 1 .. MaxCols, m \in 0 .. MaxMines }

ValidConfigs ==
    { p \in Configs :
        /\ p.rows * p.cols <= MaxCells
        /\ p.mines <= p.rows * p.cols
        /\ (p.mines > 1 => p.rows * p.cols <= MaxDenseCells) }

(* --------------------------- sequence helpers ------------------------- *)

Range(s) == { s[i] : i \in 1 .. Len(s) }

NoDuplicates(s) == \A i, j \in 1 .. Len(s) : s[i] = s[j] => i = j

\* grid.flat(): the positions in row-major order
RECURSIVE flatFrom(_)
flatFrom(k) ==
    IF k >= params.rows * params.cols THEN <<>>
    ELSE <<Position(k \div params.cols, k % params.cols)>> \o flatFrom(k + 1)

flat == flatFrom(0)

(* ------------------------------ SimpleCell ---------------------------- *)

\* new SimpleCell(props): the five stored properties, with their defaults
SimpleCell(position, isMine, isRevealed, isFlagged, adjacentMines) ==
    [position |-> position, isMine |-> isMine, isRevealed |-> isRevealed,
     isFlagged |-> isFlagged, adjacentMines |-> adjacentMines]

\* isEmpty taking every cell without a mine for empty, whatever its number
isEmptyIgnoringAdjacency(cell) == ~cell.isMine

isEmpty(cell) == ~cell.isMine /\ cell.adjacentMines = 0
isExploded(cell) == cell.isMine /\ cell.isRevealed
isMissed(cell) == cell.isFlagged /\ ~cell.isMine
notFoundMine(cell) == cell.isMine /\ ~cell.isFlagged
isUntouched(cell) == ~cell.isRevealed /\ ~cell.isFlagged

\* SimpleCell.getData(): a copy of the stored properties plus the derived ones
getData(cell) ==
    [position |-> cell.position, isMine |-> cell.isMine,
     isRevealed |-> cell.isRevealed, isFlagged |-> cell.isFlagged,
     adjacentMines |-> cell.adjacentMines,
     isEmpty |-> isEmpty(cell), isExploded |-> isExploded(cell),
     notFoundMine |-> notFoundMine(cell), isUntouched |-> isUntouched(cell),
     isMissed |-> isMissed(cell)]

(* ------------------------------ SquareField --------------------------- *)

\* SquareField.createGrid(data): fresh cells, or one new cell per cell of data
createGridNew == [p \in Pos |-> SimpleCell(p, FALSE, FALSE, FALSE, 0)]

createGridFrom(data) ==
    [p \in Pos |-> SimpleCell(data[p].position, data[p].isMine, data[p].isRevealed,
                              data[p].isFlagged, data[p].adjacentMines)]

\* the constructor leaving isMined unset whatever the grid holds
BaseFieldUnmined(grid) == [grid |-> grid, isMined |-> FALSE]

\* BaseField constructor: grid, and isMined computed from the grid
BaseField(grid) == [grid |-> grid, isMined |-> \E p \in Pos : grid[p].isMine]

isInBoundary(position) ==
    /\ position.col >= 0
    /\ position.row >= 0
    /\ position.col < params.cols
    /\ position.row < params.rows

\* the (dx, dy) pairs in the order of the two nested loops of getSiblings
Offsets ==
    << <<-1, -1>>, <<-1, 0>>, <<-1, 1>>, <<0, -1>>,
       <<0, 1>>, <<1, -1>>, <<1, 0>>, <<1, 1>> >>

\* SquareField.getSiblings: the in-bounds neighbours, as positions, in loop order
RECURSIVE siblingsFrom(_, _)
siblingsFrom(position, k) ==
    IF k > Len(Offsets) THEN <<>>
    ELSE LET q == Position(position.row + Offsets[k][2], position.col + Offsets[k][1])
         IN  (IF isInBoundary(q) THEN <<q>> ELSE <<>>) \o siblingsFrom(position, k + 1)

getSiblings(position) == siblingsFrom(position, 1)

getCell(f, position) == f.grid[position]

getCellData(f, position) == getData(getCell(f, position))

\* SquareField.mineCell
mineCell(f, position) ==
    LET sibs == Range(getSiblings(position))
    IN  [f EXCEPT !.grid =
            [q \in Pos |->
                IF q = position THEN [f.grid[q] EXCEPT !.isMine = TRUE]
                ELSE IF q \in sibs
                     THEN [f.grid[q] EXCEPT !.adjacentMines = @ + 1]
                     ELSE f.grid[q]]]

\* unMineCell without the decrement of the neighbours' counts
unMineCellNoDecrement(f, position) ==
    [f EXCEPT !.grid[position].isMine = FALSE]

\* SquareField.unMineCell
unMineCell(f, position) ==
    LET sibs == Range(getSiblings(position))
    IN  [f EXCEPT !.grid =
            [q \in Pos |->
                IF q = position THEN [f.grid[q] EXCEPT !.isMine = FALSE]
                ELSE IF q \in sibs
                     THEN [f.grid[q] EXCEPT !.adjacentMines = @ - 1]
                     ELSE f.grid[q]]]

\* relocateMine that mines the new cell and leaves the old one mined
relocateMineNoUnmine(f, from, to) == mineCell(f, to)

\* SquareField.relocateMine
relocateMine(f, from, to) == mineCell(unMineCell(f, from), to)

\* SquareField.placeMines on a field that is not mined yet, once its loop has
\* chosen the distinct positions chosen: isMined is set and each is mined
RECURSIVE mineCells(_, _)
mineCells(f, chosen) ==
    IF chosen = {} THEN f
    ELSE LET p == CHOOSE q \in chosen : TRUE
         IN  mineCells(mineCell(f, p), chosen \ {p})

placeMines(f, chosen) ==
    IF f.isMined THEN f
    ELSE mineCells([f EXCEPT !.isMined = TRUE], chosen)

\* the sets of positions the rejection sampling of placeMines can end with
placeMinesOutcomes(f) ==
    IF f.isMined THEN {{}}
    ELSE { S \in SUBSET Pos : Cardinality(S) = params.mines }

\* the queue loop of getAreaToReveal expanding every cell that is not a mine,
\* numbered cells too
RECURSIVE areaLoopExpandNumbered(_, _, _, _)
areaLoopExpandNumbered(f, queue, visited, result) ==
    IF queue = <<>> THEN result
    ELSE LET position == Head(queue)
             rest == Tail(queue)
         IN  IF position \in visited
             THEN areaLoopExpandNumbered(f, rest, visited, result)
             ELSE areaLoopExpandNumbered(f,
                           IF ~f.grid[position].isMine
                           THEN rest \o getSiblings(position)
                           ELSE rest,
                           visited \cup {position},
                           Append(result, position))

\* SquareField.getAreaToReveal: the loop over the queue
RECURSIVE areaLoop(_, _, _, _)
areaLoop(f, queue, visited, result) ==
    IF queue = <<>> THEN result
    ELSE LET position == Head(queue)
             rest == Tail(queue)
         IN  IF position \in visited
             THEN areaLoop(f, rest, visited, result)
             ELSE areaLoop(f,
                           IF isEmpty(f.grid[position])
                           THEN rest \o getSiblings(position)
                           ELSE rest,
                           visited \cup {position},
                           Append(result, position))

\* SquareField.getAreaToReveal: the cells to reveal, as positions, in visit order
getAreaToReveal(f, position) ==
    LET target == getCell(f, position)
    IN  IF ~isEmpty(target) \/ target.isMine THEN <<position>>
        ELSE areaLoop(f, <<position>>, {}, <<>>)

\* cloneSelf handing out the field object itself instead of a copy
cloneSelfShared(h, src, new) == [heap |-> h, ref |-> src]

\* SquareField.cloneSelf: a new field object at reference new, built from the
\* cells of the object at src; the heap with it and its reference
cloneSelf(h, src, new) ==
    [heap |-> [r \in DOMAIN h \cup {new} |->
                  IF r = new THEN BaseField(createGridFrom(h[src].grid)) ELSE h[r]],
     ref |-> new]

\* SquareField.getData: the cell data of the whole grid
getFieldData(f) == [p \in Pos |-> getData(f.grid[p])]

\* BaseField.getState: the field data and the categorised cell lists, each in
\* the row-major order of data.flat(), as positions
getState(f) ==
    LET data == getFieldData(f)
    IN  [field |-> data,
         minedCells |-> SelectSeq(flat, LAMBDA p : data[p].isMine),
         flaggedCells |-> SelectSeq(flat, LAMBDA p : data[p].isFlagged),
         revealedCells |-> SelectSeq(flat, LAMBDA p : data[p].isRevealed),
         explodedCells |-> SelectSeq(flat, LAMBDA p : data[p].isExploded),
         errorFlags |-> SelectSeq(flat, LAMBDA p : data[p].isMissed),
         notFoundMines |-> SelectSeq(flat, LAMBDA p : data[p].notFoundMine)]

(* ------------------------------ GameEngine ---------------------------- *)

\* determineStatus testing the win before the loss
determineStatusWonFirst(resultState) ==
    IF Len(resultState.revealedCells) = params.cols * params.rows - params.mines
    THEN Won
    ELSE IF Len(resultState.explodedCells) > 0 THEN Lost
    ELSE Playing

\* GameEngine.determineStatus
determineStatus(resultState) ==
    LET revealedCount == Len(resultState.revealedCells)
    IN  IF Len(resultState.explodedCells) > 0 THEN Lost
        ELSE IF revealedCount = params.cols * params.rows - params.mines THEN Won
        ELSE Playing

\* getFlagsRemaining counting the mines that carry no flag
getFlagsRemainingNotFound(resultState) == Len(resultState.notFoundMines)

\* GameEngine.getFlagsRemaining
getFlagsRemaining(resultState) == params.mines - Len(resultState.flaggedCells)

\* GameEngine.gameSnapshot
gameSnapshot == [state |-> getState(heap[field]), status |-> status]

\* GameEngine.openArea: the loop over the area
RECURSIVE openAreaLoop(_, _, _, _)
openAreaLoop(f, area, unflaggedCells, revealedCells) ==
    IF area = <<>>
    THEN [field |-> f, unflaggedCells |-> unflaggedCells,
          revealedCells |-> revealedCells]
    ELSE LET p == Head(area)
             c == f.grid[p]
         IN  openAreaLoop(
                 [f EXCEPT !.grid[p] = [c EXCEPT !.isFlagged = FALSE, !.isRevealed = TRUE]],
                 Tail(area),
                 IF c.isFlagged THEN Append(unflaggedCells, p) ELSE unflaggedCells,
                 IF ~c.isRevealed THEN Append(revealedCells, p) ELSE revealedCells)

\* GameEngine.openArea
openArea(pos, operatedField) ==
    openAreaLoop(operatedField, getAreaToReveal(operatedField, pos), <<>>, <<>>)

\* GameEngine.handleRevealedClick: the loop over the siblings; acc carries the
\* field and the lists built so far
RECURSIVE chordLoop(_, _)
chordLoop(sibs, acc) ==
    IF sibs = <<>> THEN acc
    ELSE LET p == Head(sibs)
             sibCell == acc.field.grid[p]
         IN  IF sibCell.isFlagged \/ sibCell.isRevealed
             THEN chordLoop(Tail(sibs), acc)
             ELSE IF sibCell.isMine /\ ~sibCell.isFlagged
             THEN chordLoop(Tail(sibs),
                     [acc EXCEPT !.field.grid[p].isRevealed = TRUE,
                                 !.explodedCells = Append(@, p)])
             ELSE LET openResult == openArea(p, acc.field)
                  IN  chordLoop(Tail(sibs),
                         [acc EXCEPT !.field = openResult.field,
                                     !.revealedCells = @ \o openResult.revealedCells,
                                     !.unflaggedCells = @ \o openResult.unflaggedCells])

\* handleRevealedClick opening the neighbours whatever the flag count
handleRevealedClickAnyFlags(targetPos, operatedField) ==
    LET siblings == getSiblings(targetPos)
        closedSiblings ==
            SelectSeq(siblings, LAMBDA p : isUntouched(operatedField.grid[p]))
    IN  chordLoop(siblings,
            [field |-> operatedField, unflaggedCells |-> <<>>,
             revealedCells |-> <<>>, handledCells |-> closedSiblings,
             explodedCells |-> <<>>])

\* GameEngine.handleRevealedClick
handleRevealedClick(targetPos, operatedField) ==
    LET siblings == getSiblings(targetPos)
        closedSiblings ==
            SelectSeq(siblings, LAMBDA p : isUntouched(operatedField.grid[p]))
        flags == Len(SelectSeq(siblings, LAMBDA p : operatedField.grid[p].isFlagged))
        empty == [field |-> operatedField, unflaggedCells |-> <<>>,
                  revealedCells |-> <<>>, handledCells |-> <<>>,
                  explodedCells |-> <<>>]
    IN  IF flags = operatedField.grid[targetPos].adjacentMines
        THEN chordLoop(siblings, [empty EXCEPT !.handledCells = closedSiblings])
        ELSE empty

\* the first click without the relocation of a clicked mine
firstClickNoRelocation(operatedField, pos) ==
    [field |-> operatedField, status |-> Playing]

\* GameEngine.revealCell, step 1: the first click. The field after it and the
\* working status
firstClick(operatedField, pos) ==
    IF getCellData(operatedField, pos).isMine
    THEN LET unmined == SelectSeq(flat, LAMBDA p : ~operatedField.grid[p].isMine)
         IN  IF unmined = <<>>
             THEN [field |-> operatedField, status |-> Lost]
             ELSE [field |-> relocateMine(operatedField, pos, Head(unmined)),
                   status |-> Playing]
    ELSE [field |-> operatedField, status |-> Playing]

\* GameEngine.revealCell, step 2: the main logic. The field after it and the
\* lists of the action's changes
revealLogic(operatedField, actionStatus, pos) ==
    LET target == getCell(operatedField, pos)
        none == [field |-> operatedField, unflaggedCells |-> <<>>,
                 revealedCells |-> <<>>, handledCells |-> <<>>,
                 explodedCells |-> <<>>]
    IN  IF actionStatus = Playing /\ ~target.isFlagged
        THEN IF target.isMine
             THEN [none EXCEPT !.field.grid[pos].isRevealed = TRUE,
                               !.handledCells = <<pos>>,
                               !.explodedCells = <<pos>>]
             ELSE IF target.isRevealed
             THEN handleRevealedClick(pos, operatedField)
             ELSE LET result == openArea(pos, operatedField)
                  IN  [none EXCEPT !.field = result.field,
                                   !.handledCells = <<pos>>,
                                   !.revealedCells = result.revealedCells,
                                   !.unflaggedCells = result.unflaggedCells]
        ELSE none

\* the flag logic that toggles the flag of a revealed cell too
toggleLogicOnRevealed(operatedField, pos) ==
    LET cell == getCell(operatedField, pos)
        none == [field |-> operatedField, flaggedCells |-> <<>>,
                 unflaggedCells |-> <<>>]
    IN  IF status = Playing
        THEN IF cell.isFlagged
             THEN [none EXCEPT !.field.grid[pos].isFlagged = FALSE,
                               !.unflaggedCells = <<pos>>]
             ELSE IF flagsRemaining > 0
             THEN [none EXCEPT !.field.grid[pos].isFlagged = TRUE,
                               !.flaggedCells = <<pos>>]
             ELSE none
        ELSE none

\* the flag logic that sets a flag whatever the number of flags remaining
toggleLogicUnbudgeted(operatedField, pos) ==
    LET cell == getCell(operatedField, pos)
        none == [field |-> operatedField, flaggedCells |-> <<>>,
                 unflaggedCells |-> <<>>]
    IN  IF status = Playing /\ ~cell.isRevealed
        THEN IF cell.isFlagged
             THEN [none EXCEPT !.field.grid[pos].isFlagged = FALSE,
                               !.unflaggedCells = <<pos>>]
             ELSE [none EXCEPT !.field.grid[pos].isFlagged = TRUE,
                               !.flaggedCells = <<pos>>]
        ELSE none

\* the flag logic that takes a flag off only while flags remain
toggleLogicBudgetedUnflag(operatedField, pos) ==
    LET cell == getCell(operatedField, pos)
        none == [field |-> operatedField, flaggedCells |-> <<>>,
                 unflaggedCells |-> <<>>]
    IN  IF status = Playing /\ ~cell.isRevealed /\ flagsRemaining > 0
        THEN IF cell.isFlagged
             THEN [none EXCEPT !.field.grid[pos].isFlagged = FALSE,
                               !.unflaggedCells = <<pos>>]
             ELSE [none EXCEPT !.field.grid[pos].isFlagged = TRUE,
                               !.flaggedCells = <<pos>>]
        ELSE none

\* GameEngine.toggleFlag: the flag logic. The field after it and the lists
toggleLogic(operatedField, pos) ==
    LET cell == getCell(operatedField, pos)
        none == [field |-> operatedField, flaggedCells |-> <<>>,
                 unflaggedCells |-> <<>>]
    IN  IF status = Playing /\ ~cell.isRevealed
        THEN IF cell.isFlagged
             THEN [none EXCEPT !.field.grid[pos].isFlagged = FALSE,
                               !.unflaggedCells = <<pos>>]
             ELSE IF flagsRemaining > 0
             THEN [none EXCEPT !.field.grid[pos].isFlagged = TRUE,
                               !.flaggedCells = <<pos>>]
             ELSE none
        ELSE none

(* ------------------------------ actions ------------------------------- *)

\* the reference of the field object the next cloneSelf allocates; 0 is the
\* field the constructor makes
NewRef == Len(results) + 1

\* the number of calls explored on the engine of this board
CallBound ==
    IF params.rows * params.cols <= MaxSmallCells THEN MaxSmallCalls ELSE MaxCalls

\* no Solver has been constructed
NoSolver ==
    [pc |-> "none", op |-> "none", probabilities |-> <<>>,
     certainMinesFound |-> FALSE, certainSafeFound |-> FALSE, passes |-> 0,
     threw |-> FALSE, returned |-> <<>>]

\* new GameEngine(config), up to the call of placeMines: FieldFactory.create
\* has made the SquareField (no data: a fresh grid)
Init ==
    /\ params \in ValidConfigs
    /\ heap = [r \in {0} |-> BaseField(createGridNew)]
    /\ field = 0
    /\ status = Unset
    /\ flagsRemaining = 0
    /\ results = <<>>
    /\ pc = "placeMines"
    /\ avoidSet = {}
    /\ minesPlacedCount = 0
    /\ solver = NoSolver

\* placeMines, before its loop: the guard on isMined, then isMined = true
placeMinesEnter ==
    /\ pc = "placeMines"
    /\ IF heap[0].isMined
       THEN pc' = "return" /\ UNCHANGED heap
       ELSE pc' = "loop" /\ heap' = [heap EXCEPT ![0].isMined = TRUE]
    /\ UNCHANGED <<solver, params, field, status, flagsRemaining, results, avoidSet,
                   minesPlacedCount>>

\* the iteration of the loop counting a repeated position as a placed mine
placeMinesDrawCountingRepeats(position) ==
    /\ pc = "loop"
    /\ minesPlacedCount < params.mines
    /\ IF position \notin avoidSet
       THEN /\ avoidSet' = avoidSet \cup {position}
            /\ heap' = [heap EXCEPT ![0] = mineCell(heap[0], position)]
       ELSE UNCHANGED <<avoidSet, heap>>
    /\ minesPlacedCount' = minesPlacedCount + 1
    /\ UNCHANGED <<solver, params, field, status, flagsRemaining, results, pc>>

\* placeMines, one iteration of its loop: the random source yields position
placeMinesDraw(position) ==
    /\ pc = "loop"
    /\ minesPlacedCount < params.mines
    /\ IF position \notin avoidSet
       THEN /\ avoidSet' = avoidSet \cup {position}
            /\ heap' = [heap EXCEPT ![0] = mineCell(heap[0], position)]
            /\ minesPlacedCount' = minesPlacedCount + 1
       ELSE UNCHANGED <<avoidSet, heap, minesPlacedCount>>
    /\ UNCHANGED <<solver, params, field, status, flagsRemaining, results, pc>>

\* placeMines leaves its loop
placeMinesExit ==
    /\ pc = "loop"
    /\ ~(minesPlacedCount < params.mines)
    /\ pc' = "return"
    /\ avoidSet' = {}
    /\ minesPlacedCount' = 0
    /\ UNCHANGED <<solver, params, heap, field, status, flagsRemaining, results>>

\* the rest of the GameEngine constructor
constructed ==
    /\ pc = "return"
    /\ pc' = "ready"
    /\ flagsRemaining' = params.mines
    /\ status' = Idle
    /\ UNCHANGED <<solver, params, heap, field, results, avoidSet, minesPlacedCount>>

\* the committed state a call starts from, kept with its result: the cell
\* data, the status and flagsRemaining
Before == [field |-> getFieldData(heap[field]), status |-> status,
           flagsRemaining |-> flagsRemaining]

\* GameEngine.revealCell(pos): the whole call. The result is appended to
\* results; chosen is what placeMines draws when the clone is not mined
revealCell(pos) ==
    /\ pc = "ready"
    /\ Len(results) < CallBound
    /\ LET clone == cloneSelf(heap, field, NewRef)
           cloned == clone.heap[clone.ref]
       IN  \E chosen \in placeMinesOutcomes(cloned) :
           LET placed == IF status = Idle /\ ~cloned.isMined
                         THEN placeMines(cloned, chosen) ELSE cloned
               first == IF status = Idle THEN firstClick(placed, pos)
                        ELSE [field |-> placed, status |-> status]
               done == revealLogic(first.field, first.status, pos)
               resultState == getState(done.field)
               actionStatus == determineStatus(resultState)
           IN  /\ heap' = [clone.heap EXCEPT ![clone.ref] = done.field]
               /\ results' = Append(results,
                     [op |-> "revealCell",
                      pos |-> pos,
                      before |-> Before,
                      operatedField |-> clone.ref,
                      resultState |-> resultState,
                      status |-> actionStatus,
                      explodedCells |-> done.explodedCells,
                      flaggedCells |-> <<>>,
                      revealedCells |-> done.revealedCells,
                      handledCells |-> done.handledCells,
                      unflaggedCells |-> done.unflaggedCells])
    /\ UNCHANGED <<solver, params, field, status, flagsRemaining, pc, avoidSet,
                   minesPlacedCount>>

\* GameEngine.toggleFlag(pos): the whole call
toggleFlag(pos) ==
    /\ pc = "ready"
    /\ Len(results) < CallBound
    /\ LET clone == cloneSelf(heap, field, NewRef)
           cloned == clone.heap[clone.ref]
           done == toggleLogic(cloned, pos)
           resultState == getState(done.field)
       IN  /\ heap' = [clone.heap EXCEPT ![clone.ref] = done.field]
           /\ results' = Append(results,
                 [op |-> "toggleFlag",
                  pos |-> pos,
                  before |-> Before,
                  operatedField |-> clone.ref,
                  resultState |-> resultState,
                  status |-> status,
                  explodedCells |-> <<>>,
                  flaggedCells |-> done.flaggedCells,
                  revealedCells |-> <<>>,
                  handledCells |-> <<>>,
                  unflaggedCells |-> done.unflaggedCells])
    /\ UNCHANGED <<solver, params, field, status, flagsRemaining, pc, avoidSet,
                   minesPlacedCount>>

\* apply() of the i-th result of revealCell: its applyAction
applyReveal(i) ==
    /\ pc = "ready"
    /\ i \in 1 .. Len(results)
    /\ results[i].op = "revealCell"
    /\ status' = results[i].status
    /\ field' = results[i].operatedField
    /\ flagsRemaining' = getFlagsRemaining(results[i].resultState)
    /\ UNCHANGED <<solver, params, heap, results, pc, avoidSet, minesPlacedCount>>

\* apply() of the i-th result of toggleFlag: its applyAction
applyToggle(i) ==
    /\ pc = "ready"
    /\ i \in 1 .. Len(results)
    /\ results[i].op = "toggleFlag"
    /\ field' = results[i].operatedField
    /\ flagsRemaining' = getFlagsRemaining(results[i].resultState)
    /\ UNCHANGED <<solver, params, heap, status, results, pc, avoidSet, minesPlacedCount>>

Next ==
    \/ placeMinesEnter
    \/ \E position \in Pos : placeMinesDraw(position)
    \/ placeMinesExit
    \/ constructed
    \/ \E pos \in Pos : revealCell(pos)
    \/ \E pos \in Pos : toggleFlag(pos)
    \/ \E i \in 1 .. CallBound : applyReveal(i)
    \/ \E i \in 1 .. CallBound : applyToggle(i)

Spec == Init /\ [][Next]_vars

(* --------------------- SquareField.placeMines alone ------------------- *)

\* the configurations of a field that placeMines is followed on
PlacementConfigs == { p \in Configs : p.mines <= p.rows * p.cols }

\* new SquareField(config) without data, before any call of placeMines
PlacementInit ==
    /\ params \in PlacementConfigs
    /\ heap = [r \in {0} |-> BaseField(createGridNew)]
    /\ field = 0
    /\ status = Unset
    /\ flagsRemaining = 0
    /\ results = <<>>
    /\ pc = "placeMines"
    /\ avoidSet = {}
    /\ minesPlacedCount = 0
    /\ solver = NoSolver

\* placeMines is called again on the field that a call has returned from
placeMinesAgain ==
    /\ pc = "return"
    /\ pc' = "placeMines"
    /\ UNCHANGED <<solver, params, heap, field, status, flagsRemaining, results,
                   avoidSet, minesPlacedCount>>

PlacementNext ==
    \/ placeMinesEnter
    \/ \E position \in Pos : placeMinesDraw(position)
    \/ placeMinesExit
    \/ placeMinesAgain

\* every position a board of the bounded sizes can have
AllPositions == { Position(r, c) : r \in 0 .. MaxRows - 1, c \in 0 .. MaxCols - 1 }

\* the code runs on without suspension, and the random source yields every
\* cell of the board again and again
PlacementFairness ==
    /\ WF_vars(placeMinesEnter)
    /\ WF_vars(placeMinesExit)
    /\ \A position \in AllPositions :
          WF_vars(position \in Pos /\ placeMinesDraw(position))

PlacementSpec == PlacementInit /\ [][PlacementNext]_vars /\ PlacementFairness

(* ------------------------------ Solver -------------------------------- *)

\* utils.createKey: the key "col-row" of a position, as the pair it is made of
createKey(position) == <<position.col, position.row>>

\* Map.has on a Map kept as the sequence of its entries in insertion order
mapHas(map, key) == \E k \in 1 .. Len(map) : map[k].key = key

\* Map.set: the value of an existing key is replaced in place, a new key is
\* added at the end
mapSet(map, key, value) ==
    IF mapHas(map, key)
    THEN [k \in 1 .. Len(map) |->
            IF map[k].key = key THEN [key |-> key, value |-> value] ELSE map[k]]
    ELSE Append(map, [key |-> key, value |-> value])

\* probabilities.get(key)?.value === v
mapValueIs(map, key, v) ==
    \E k \in 1 .. Len(map) : map[k].key = key /\ map[k].value.value = v

\* Array.from(probabilities.values())
mapValues(map) == [k \in 1 .. Len(map) |-> map[k].value]

\* siblings.filter(s => !s.isRevealed), as positions
closedSiblings(f, position) ==
    SelectSeq(getSiblings(position), LAMBDA s : ~f.grid[s].isRevealed)

\* the inner loop of inferCertainMines writing every closed sibling, the ones
\* that have an entry too
RECURSIVE markMinesOverwriting(_, _)
markMinesOverwriting(closed, acc) ==
    IF closed = <<>> THEN acc
    ELSE markMinesOverwriting(Tail(closed),
            [probabilities |->
                mapSet(acc.probabilities, createKey(Head(closed)),
                       [value |-> 1, position |-> Head(closed)]),
             updated |-> TRUE])

\* inferCertainMines: the inner loop over the closed siblings
RECURSIVE markMines(_, _)
markMines(closed, acc) ==
    IF closed = <<>> THEN acc
    ELSE LET key == createKey(Head(closed))
         IN  IF mapHas(acc.probabilities, key)
             THEN markMines(Tail(closed), acc)
             ELSE markMines(Tail(closed),
                     [probabilities |->
                         mapSet(acc.probabilities, key,
                                [value |-> 1, position |-> Head(closed)]),
                      updated |-> TRUE])

\* inferCertainMines: the loop over the revealed cells
RECURSIVE inferCertainMinesLoop(_, _, _, _)
inferCertainMinesLoop(f, fieldData, cells, acc) ==
    IF cells = <<>> THEN acc
    ELSE LET cell == fieldData[Head(cells)]
             closed == closedSiblings(f, cell.position)
             knownSafe ==
                 SelectSeq(closed,
                           LAMBDA s : mapValueIs(acc.probabilities, createKey(s), 0))
         IN  IF cell.isEmpty \/ cell.isMine \/ Len(closed) = 0
             THEN inferCertainMinesLoop(f, fieldData, Tail(cells), acc)
             ELSE IF cell.adjacentMines = Len(closed) - Len(knownSafe)
             THEN inferCertainMinesLoop(f, fieldData, Tail(cells),
                                        markMines(closed, acc))
             ELSE inferCertainMinesLoop(f, fieldData, Tail(cells), acc)

\* Solver.inferCertainMines: the probabilities after it and what it returns
inferCertainMines(f, fieldState, probabilities) ==
    inferCertainMinesLoop(f, fieldState.field, fieldState.revealedCells,
                          [probabilities |-> probabilities, updated |-> FALSE])

\* inferCertainSafeCells: the inner loop over the closed siblings
RECURSIVE markSafe(_, _)
markSafe(closed, acc) ==
    IF closed = <<>> THEN acc
    ELSE LET key == createKey(Head(closed))
         IN  IF mapHas(acc.probabilities, key)
             THEN markSafe(Tail(closed), acc)
             ELSE markSafe(Tail(closed),
                     [probabilities |->
                         mapSet(acc.probabilities, key,
                                [value |-> 0, position |-> Head(closed)]),
                      updated |-> TRUE])

\* inferCertainSafeCells: the loop over the revealed cells
RECURSIVE inferCertainSafeCellsLoop(_, _, _, _)
inferCertainSafeCellsLoop(f, fieldData, cells, acc) ==
    IF cells = <<>> THEN acc
    ELSE LET cell == fieldData[Head(cells)]
             closed == closedSiblings(f, cell.position)
             knownMines ==
                 SelectSeq(closed,
                           LAMBDA s : mapValueIs(acc.probabilities, createKey(s), 1))
         IN  IF cell.isEmpty \/ cell.isMine \/ Len(closed) = 0
             THEN inferCertainSafeCellsLoop(f, fieldData, Tail(cells), acc)
             ELSE IF Len(knownMines) = cell.adjacentMines
             THEN inferCertainSafeCellsLoop(f, fieldData, Tail(cells),
                                            markSafe(closed, acc))
             ELSE inferCertainSafeCellsLoop(f, fieldData, Tail(cells), acc)

\* Solver.inferCertainSafeCells: the probabilities after it and what it returns
inferCertainSafeCells(f, fieldState, probabilities) ==
    inferCertainSafeCellsLoop(f, fieldState.field, fieldState.revealedCells,
                              [probabilities |-> probabilities, updated |-> FALSE])

\* siblings.some(s => !s.isRevealed)
hasClosed(f, position) ==
    \E s \in Range(getSiblings(position)) : ~f.grid[s].isRevealed

\* groupConnectedRegions: the loop over the queue of one group; pop() takes
\* the last element
RECURSIVE groupQueueLoop(_, _, _, _)
groupQueueLoop(f, queue, visited, group) ==
    IF queue = <<>> THEN [visited |-> visited, group |-> group]
    ELSE LET current == queue[Len(queue)]
             rest == SubSeq(queue, 1, Len(queue) - 1)
             currentKey == createKey(current)
         IN  IF currentKey \in visited
             THEN groupQueueLoop(f, rest, visited, group)
             ELSE LET seen == visited \cup {currentKey}
                      neighbors ==
                          SelectSeq(getSiblings(current),
                                    LAMBDA n : /\ f.grid[n].isRevealed
                                               /\ createKey(n) \notin seen)
                      pushed == SelectSeq(neighbors, LAMBDA n : hasClosed(f, n))
                  IN  groupQueueLoop(f, rest \o pushed, seen, Append(group, current))

\* groupConnectedRegions: the loop over the revealed cells
RECURSIVE groupCellsLoop(_, _, _, _)
groupCellsLoop(f, cells, visited, regions) ==
    IF cells = <<>> THEN regions
    ELSE LET cell == Head(cells)
         IN  IF createKey(cell) \in visited \/ ~hasClosed(f, cell)
             THEN groupCellsLoop(f, Tail(cells), visited, regions)
             ELSE LET g == groupQueueLoop(f, <<cell>>, visited, <<>>)
                  IN  groupCellsLoop(f, Tail(cells), g.visited,
                                     IF Len(g.group) > 0
                                     THEN Append(regions, g.group)
                                     ELSE regions)

\* Solver.groupConnectedRegions: the regions, each a sequence of positions
groupConnectedRegions(f, cells) == groupCellsLoop(f, cells, {}, <<>>)

(* --------------------------- Solver: actions -------------------------- *)

\* the configurations a Solver is constructed with
SolverConfigs ==
    { p \in [rows : 1 .. MaxRows, cols : 1 .. MaxSolverCols, mines : 0 .. MaxMines] :
        /\ p.rows * p.cols <= MaxCells
        /\ p.mines <= p.rows * p.cols }

\* the cell data of a field instance: a mine layout with the adjacentMines it
\* gives, and the revealed and the flagged cells
FieldInstance(mines, revealed, flagged) ==
    [p \in Pos |->
        getData(SimpleCell(p, p \in mines, p \in revealed, p \in flagged,
                           Cardinality({ q \in mines : /\ q # p
                                                        /\ q.row - p.row \in -1 .. 1
                                                        /\ q.col - p.col \in -1 .. 1 })))]

\* new Solver(config), up to the call of placeMines: FieldFactory.create has
\* made the SquareField, from config.data when the config has data
SolverInit ==
    /\ params \in SolverConfigs
    /\ \/ heap = [r \in {0} |-> BaseField(createGridNew)]
       \/ \E mines \in { m \in SUBSET Pos : Cardinality(m) = params.mines },
             revealed \in SUBSET Pos,
             flagged \in { g \in SUBSET Pos : Cardinality(g) <= MaxSolverFlags } :
             heap = [r \in {0} |->
                       BaseField(createGridFrom(FieldInstance(mines, revealed, flagged)))]
    /\ field = 0
    /\ status = Unset
    /\ flagsRemaining = 0
    /\ results = <<>>
    /\ pc = "placeMines"
    /\ avoidSet = {}
    /\ minesPlacedCount = 0
    /\ solver = NoSolver

\* the Solver constructor returns
solverConstructed ==
    /\ pc = "return"
    /\ pc' = "solver"
    /\ solver' = [NoSolver EXCEPT !.pc = "idle"]
    /\ UNCHANGED <<params, heap, field, status, flagsRemaining, results, avoidSet,
                   minesPlacedCount>>

\* this.field.getState() of solve(): the Solver's field is never changed
fieldState == getState(heap[field])

\* solve() is called: a new probabilities Map
solve ==
    /\ pc = "solver"
    /\ solver.pc = "idle"
    /\ solver' = [solver EXCEPT !.pc = "inferCertainMines", !.op = "solve",
                                !.probabilities = <<>>]
    /\ UNCHANGED <<params, heap, field, status, flagsRemaining, results, pc,
                   avoidSet, minesPlacedCount>>

\* isGuessingState() is called, and calls solve()
isGuessingState ==
    /\ pc = "solver"
    /\ solver.pc = "idle"
    /\ solver' = [solver EXCEPT !.pc = "inferCertainMines", !.op = "isGuessingState",
                                !.probabilities = <<>>]
    /\ UNCHANGED <<params, heap, field, status, flagsRemaining, results, pc,
                   avoidSet, minesPlacedCount>>

\* solve(), the loop body: a pass begins with the call of inferCertainMines
solveInferCertainMines ==
    /\ solver.pc = "inferCertainMines"
    /\ solver.passes < MaxPasses
    /\ LET found == inferCertainMines(heap[field], fieldState, solver.probabilities)
       IN  solver' = [solver EXCEPT !.pc = "inferCertainSafeCells",
                                    !.probabilities = found.probabilities,
                                    !.certainMinesFound = found.updated,
                                    !.passes = @ + 1]
    /\ UNCHANGED <<params, heap, field, status, flagsRemaining, results, pc,
                   avoidSet, minesPlacedCount>>

\* solve(), the loop body: the call of inferCertainSafeCells
solveInferCertainSafeCells ==
    /\ solver.pc = "inferCertainSafeCells"
    /\ LET found == inferCertainSafeCells(heap[field], fieldState, solver.probabilities)
       IN  solver' = [solver EXCEPT !.pc = "while",
                                    !.probabilities = found.probabilities,
                                    !.certainSafeFound = found.updated]
    /\ UNCHANGED <<params, heap, field, status, flagsRemaining, results, pc,
                   avoidSet, minesPlacedCount>>

\* solve(): changed = certainMinesFound || certainSafeFound; while (changed).
\* Leaving the loop, solve() returns the values of the Map; the set-theory
\* step between the loop and the return is commented out in the source
solveWhile ==
    /\ solver.pc = "while"
    /\ IF solver.certainMinesFound \/ solver.certainSafeFound
       THEN solver' = [solver EXCEPT !.pc = "inferCertainMines"]
       ELSE solver' = [solver EXCEPT
                          !.pc = IF solver.op = "solve" THEN "returned"
                                 ELSE "isGuessingState",
                          !.returned = mapValues(solver.probabilities)]
    /\ UNCHANGED <<params, heap, field, status, flagsRemaining, results, pc,
                   avoidSet, minesPlacedCount>>

\* isGuessingState(), after its solve(): false when some value is 0
isGuessingStateReturn ==
    /\ solver.pc = "isGuessingState"
    /\ solver' = [solver EXCEPT
                     !.pc = "returned",
                     !.returned = ~\E k \in 1 .. Len(solver.returned) :
                                      solver.returned[k].value = 0]
    /\ UNCHANGED <<params, heap, field, status, flagsRemaining, results, pc,
                   avoidSet, minesPlacedCount>>

\* createConnectedRegions(): the whole call
createConnectedRegions ==
    /\ pc = "solver"
    /\ solver.pc = "idle"
    /\ solver' = [solver EXCEPT
                     !.pc = "returned", !.op = "createConnectedRegions",
                     !.returned = groupConnectedRegions(heap[field],
                                                        fieldState.revealedCells)]
    /\ UNCHANGED <<params, heap, field, status, flagsRemaining, results, pc,
                   avoidSet, minesPlacedCount>>

SolverNext ==
    \/ placeMinesEnter
    \/ \E position \in Pos : placeMinesDraw(position)
    \/ placeMinesExit
    \/ solverConstructed
    \/ solve
    \/ isGuessingState
    \/ solveInferCertainMines
    \/ solveInferCertainSafeCells
    \/ solveWhile
    \/ isGuessingStateReturn
    \/ createConnectedRegions

SolverSpec == SolverInit /\ [][SolverNext]_vars

(* ------------------------- vocabulary of the properties --------------- *)

Ready == pc = "ready"

Calls == 1 .. Len(results)

Reveals == { i \in Calls : results[i].op = "revealCell" }

Toggles == { i \in Calls : results[i].op = "toggleFlag" }

\* the cells of the 8-neighbourhood of p, stated without getSiblings
Neighbours(p) ==
    { q \in Pos : /\ q # p
                  /\ q.row - p.row \in -1 .. 1
                  /\ q.col - p.col \in -1 .. 1 }

MinesOf(data) == { p \in Pos : data[p].isMine }
RevealedOf(data) == { p \in Pos : data[p].isRevealed }
FlaggedOf(data) == { p \in Pos : data[p].isFlagged }
ExplodedOf(data) == { p \in Pos : data[p].isMine /\ data[p].isRevealed }

\* the cell data of result i before and after the call
DataBefore(i) == results[i].before.field
DataAfter(i) == results[i].resultState.field

\* the status the rules of the game derive from cell data
DerivedStatus(data) ==
    IF ExplodedOf(data) # {} THEN Lost
    ELSE IF Cardinality(RevealedOf(data)) = params.rows * params.cols - params.mines
    THEN Won
    ELSE Playing

\* result i is a first click on a mine that found a cell to move the mine to
Relocated(i) ==
    /\ i \in Reveals
    /\ results[i].before.status = Idle
    /\ DataBefore(i)[results[i].pos].isMine
    /\ MinesOf(DataBefore(i)) # Pos

(* ------------------------------ C1 ------------------------------------ *)

\* C1: first-move safety. When rows*cols > mines, the result of a revealCell(p)
\* made in status Idle is never Lost: no cell is exploded, p is revealed and is
\* not a mine, and a mine that was on p now is on a cell that had none.
C1_FirstMoveSafety ==
    \A i \in Reveals :
        LET r == results[i]
        IN  (/\ r.before.status = Idle
             /\ params.rows * params.cols > params.mines)
            => /\ r.status # Lost
               /\ r.explodedCells = <<>>
               /\ ExplodedOf(DataAfter(i)) = {}
               /\ DataAfter(i)[r.pos].isRevealed
               /\ ~DataAfter(i)[r.pos].isMine
               /\ DataBefore(i)[r.pos].isMine =>
                    \E to \in Pos \ MinesOf(DataBefore(i)) :
                        MinesOf(DataAfter(i)) =
                            (MinesOf(DataBefore(i)) \ {r.pos}) \cup {to}

\* a first click on a mine on a 2x3 board, answered with status Playing
C1_Witness ==
    \E i \in Reveals :
        /\ Relocated(i)
        /\ params.rows * params.cols > params.mines
        /\ results[i].status = Playing

(* ------------------------------ C2 ------------------------------------ *)

\* C2: win/loss determination. The status of every revealCell result is Lost
\* exactly when the resulting field has an exploded cell, Won exactly when it
\* has none and rows*cols - mines cells are revealed, Playing otherwise; on the
\* 1x1 board without mines the first reveal yields Won.
C2_WinLossDetermination ==
    \A i \in Reveals :
        LET r == results[i]
            exploded == \E p \in Pos : DataAfter(i)[p].isMine /\ DataAfter(i)[p].isRevealed
            allSafeOpen == Cardinality(RevealedOf(DataAfter(i)))
                             = params.rows * params.cols - params.mines
        IN  /\ r.status = Lost <=> exploded
            /\ r.status = Won <=> (~exploded /\ allSafeOpen)
            /\ r.status = Playing <=> (~exploded /\ ~allSafeOpen)
            /\ (/\ params = [rows |-> 1, cols |-> 1, mines |-> 0]
                /\ r.before.status = Idle) => r.status = Won

\* a reveal that explodes a mine while every safe cell is already open
C2_Witness ==
    \E i \in Reveals :
        /\ results[i].status = Lost
        /\ Cardinality(RevealedOf(DataAfter(i)))
              = params.rows * params.cols - params.mines

(* ------------------------------ C3 ------------------------------------ *)

\* C3: terminal states are absorbing. Once the committed status is Won or Lost
\* no call and no apply(), of whatever result, changes it, and the committed
\* status never becomes Idle again.
C3_TerminalAbsorbing ==
    [][Ready => /\ status \in {Won, Lost} => status' = status
                /\ status # Idle => status' # Idle]_vars

(* ------------------------------ C4 ------------------------------------ *)

\* C4: preview isolation. A revealCell or toggleFlag call leaves the committed
\* snapshot and flagsRemaining as they were, and the clone it works on is
\* another object that starts with the cell values of the committed field.
C4_PreviewIsolation ==
    [][Len(results') > Len(results) =>
          LET clone == cloneSelf(heap, field, NewRef)
          IN  /\ gameSnapshot' = gameSnapshot
              /\ flagsRemaining' = flagsRemaining
              /\ clone.ref # field
              /\ getFieldData(clone.heap[clone.ref]) = gameSnapshot.state.field]_vars

\* two previews that opened cells were made and nothing was committed
C4_Witness ==
    /\ Ready
    /\ status = Idle
    /\ RevealedOf(gameSnapshot.state.field) = {}
    /\ \E i, j \in Reveals :
          /\ i # j
          /\ results[i].revealedCells # <<>>
          /\ results[j].revealedCells # <<>>

(* ------------------------------ C5 ------------------------------------ *)

\* the actionSnapshot of result i: its resultState with its status
ActionSnapshot(i) == [state |-> results[i].resultState, status |-> results[i].status]

\* C5: commit realizes the preview. Right after the apply() of a result, the
\* engine's gameSnapshot equals that result's actionSnapshot (cell values and
\* status), whatever was previewed or applied since the result was made.
C5_CommitRealizesPreview ==
    [][\A i \in Calls :
          (applyReveal(i) \/ applyToggle(i)) => gameSnapshot' = ActionSnapshot(i)]_vars

(* ------------------------------ C6 ------------------------------------ *)

\* C6: field, status and flags-remaining are committed together. In every
\* committed state whose status is not Idle, the status is the one derived
\* from the committed field.
C6_CommittedConsistent ==
    (Ready /\ status # Idle) => status = DerivedStatus(gameSnapshot.state.field)

(* ------------------------------ C7 ------------------------------------ *)

\* adjacentMines of every cell of grid is the number of its mined neighbours
AdjacencyHolds(grid) ==
    \A p \in Pos :
        grid[p].adjacentMines = Cardinality({ q \in Neighbours(p) : grid[q].isMine })

\* C7: adjacency invariant I1. In every field object, during placement, after
\* a first-click relocation and after every reveal or flag action, previewed
\* or committed, and in every snapshot handed out, adjacentMines of each cell
\* is the number of mined cells of its in-bounds 8-neighbourhood.
C7_AdjacencyInvariant ==
    /\ \A ref \in DOMAIN heap : AdjacencyHolds(heap[ref].grid)
    /\ \A i \in Calls : AdjacencyHolds(DataAfter(i))

\* a first click moved a mine on a board where some cell counts two mines
C7_Witness ==
    /\ Ready
    /\ \E i \in Reveals : Relocated(i)
    /\ \E p \in Pos : heap[field].grid[p].adjacentMines = 2

(* ------------------------------ C8 ------------------------------------ *)

\* C8: mine-count invariant I2. Once placement has occurred every field
\* object, committed or previewed, holds exactly the configured number of
\* mines; no action changes the mined cells, except a first click on a mine,
\* which takes the mine off the clicked cell and puts one on a cell that had
\* none.
C8_MineCountInvariant ==
    /\ pc \in {"return", "ready"} =>
          \A ref \in DOMAIN heap :
              Cardinality(MinesOf(heap[ref].grid)) = params.mines
    /\ \A i \in Calls :
          /\ Cardinality(MinesOf(DataAfter(i))) = params.mines
          /\ IF Relocated(i)
             THEN \E to \in Pos \ MinesOf(DataBefore(i)) :
                     MinesOf(DataAfter(i)) =
                         (MinesOf(DataBefore(i)) \ {results[i].pos}) \cup {to}
             ELSE MinesOf(DataAfter(i)) = MinesOf(DataBefore(i))

\* a first click moved a mine on a board with two mines, and was committed
C8_Witness ==
    /\ Ready
    /\ params.mines = 2
    /\ \E i \in Reveals : Relocated(i) /\ field = results[i].operatedField

(* ------------------------------ C9 ------------------------------------ *)

EmptyIn(data, p) == ~data[p].isMine /\ data[p].adjacentMines = 0

\* the least set of empty cells that holds S and every empty neighbour of its cells
RECURSIVE EmptyRegion(_, _)
EmptyRegion(data, S) ==
    LET T == S \cup { q \in Pos : EmptyIn(data, q) /\ \E p \in S : q \in Neighbours(p) }
    IN  IF T = S THEN S ELSE EmptyRegion(data, T)

\* the maximal region of empty cells around an empty cell p with the non-empty
\* cells that border it; p alone when p is not empty
RevealArea(data, p) ==
    IF EmptyIn(data, p)
    THEN LET region == EmptyRegion(data, {p})
         IN  region \cup { q \in Pos : \E e \in region : q \in Neighbours(e) }
    ELSE {p}

\* result i is an ordinary reveal: made in status Idle or Playing on a cell
\* that is not revealed, not flagged and, once the first click is handled,
\* not a mine
OrdinaryReveal(i) ==
    /\ i \in Reveals
    /\ results[i].before.status \in {Idle, Playing}
    /\ ~DataBefore(i)[results[i].pos].isRevealed
    /\ ~DataBefore(i)[results[i].pos].isFlagged
    /\ ~DataAfter(i)[results[i].pos].isMine

\* C9: flood-fill totality. An ordinary reveal of an empty cell reveals exactly
\* the maximal 8-connected region of empty cells around the target and the
\* non-empty cells adjacent to it, clears the flags of these cells, and leaves
\* the revealed and flagged state of every other cell alone; an ordinary
\* reveal of a numbered cell reveals the target only.
C9_FloodFillTotality ==
    \A i \in Calls :
        OrdinaryReveal(i) =>
            LET area == RevealArea(DataAfter(i), results[i].pos)
            IN  /\ RevealedOf(DataAfter(i)) = RevealedOf(DataBefore(i)) \cup area
                /\ FlaggedOf(DataAfter(i)) = FlaggedOf(DataBefore(i)) \ area
                /\ ~EmptyIn(DataAfter(i), results[i].pos) => area = {results[i].pos}

\* a reveal of an empty cell whose area has a numbered border and a flagged
\* cell, and leaves a safe cell outside the area closed
C9_Witness ==
    \E i \in Calls :
        /\ OrdinaryReveal(i)
        /\ EmptyIn(DataAfter(i), results[i].pos)
        /\ results[i].unflaggedCells # <<>>
        /\ \E p \in RevealArea(DataAfter(i), results[i].pos) : ~EmptyIn(DataAfter(i), p)
        /\ \E p \in Pos : ~DataAfter(i)[p].isMine /\ ~DataAfter(i)[p].isRevealed

(* ------------------------------ C10 ----------------------------------- *)

\* result i is a chord: a reveal made in status Playing on a revealed cell
\* that is not a mine
Chord(i) ==
    /\ i \in Reveals
    /\ results[i].before.status = Playing
    /\ DataBefore(i)[results[i].pos].isRevealed
    /\ ~DataBefore(i)[results[i].pos].isMine

\* the chord's flag count matches the number on its cell
ChordMatches(i) ==
    Cardinality({ n \in Neighbours(results[i].pos) : DataBefore(i)[n].isFlagged })
        = DataBefore(i)[results[i].pos].adjacentMines

\* C10: chording. When the flagged neighbours of the chorded cell are as many
\* as its number, every neighbour that was neither flagged nor revealed is
\* revealed in the result: a mined one is listed as exploded, a safe one is
\* opened with its flood-fill area. When they are not, no cell changes and the
\* delta is empty.
C10_Chording ==
    \A i \in Calls :
        Chord(i) =>
            LET r == results[i]
            IN  IF ChordMatches(i)
                THEN \A n \in Neighbours(r.pos) :
                        (~DataBefore(i)[n].isFlagged /\ ~DataBefore(i)[n].isRevealed)
                        => /\ DataAfter(i)[n].isRevealed
                           /\ IF DataBefore(i)[n].isMine
                              THEN n \in Range(r.explodedCells)
                              ELSE /\ n \notin Range(r.explodedCells)
                                   /\ RevealArea(DataAfter(i), n)
                                         \subseteq RevealedOf(DataAfter(i))
                ELSE /\ DataAfter(i) = DataBefore(i)
                     /\ r.revealedCells = <<>>
                     /\ r.flaggedCells = <<>>
                     /\ r.unflaggedCells = <<>>
                     /\ r.explodedCells = <<>>
                     /\ r.handledCells = <<>>

\* a chord next to one flagged cell that opened cells
C10_Witness ==
    \E i \in Calls :
        /\ Chord(i)
        /\ ChordMatches(i)
        /\ DataBefore(i)[results[i].pos].adjacentMines = 1
        /\ results[i].revealedCells # <<>>

(* ------------------------------ C11 ----------------------------------- *)

\* the number of flagged neighbours of p in data
FlaggedAround(data, p) == Cardinality({ n \in Neighbours(p) : data[n].isFlagged })

\* result i is one of the illegal or meaningless calls
IllegalCall(i) ==
    LET r == results[i]
        target == DataBefore(i)[r.pos]
    IN  \/ /\ i \in Reveals
           /\ \/ target.isFlagged
              \/ /\ target.isRevealed
                 /\ FlaggedAround(DataBefore(i), r.pos) # target.adjacentMines
              \/ r.before.status \in {Won, Lost}
        \/ /\ i \in Toggles
           /\ \/ ~target.isFlagged /\ r.before.flagsRemaining = 0
              \/ target.isRevealed
              \/ r.before.status \in {Idle, Won, Lost}

\* result i has empty delta lists and shows the committed field and status
\* the call started from
SilentNoOp(i) ==
    /\ results[i].revealedCells = <<>>
    /\ results[i].flaggedCells = <<>>
    /\ results[i].unflaggedCells = <<>>
    /\ results[i].explodedCells = <<>>
    /\ DataAfter(i) = DataBefore(i)
    /\ results[i].status = results[i].before.status

\* C11: illegal or meaningless actions are silent no-ops. revealCell on a
\* flagged cell, revealCell on a revealed cell whose flagged-neighbour count
\* differs from its number, toggleFlag on an unflagged cell with flagsRemaining
\* 0, toggleFlag on a revealed cell, toggleFlag in status Idle, and either call
\* in status Won or Lost return a result whose revealed, flagged, unflagged and
\* exploded lists are empty and whose actionSnapshot (field and status) is the
\* committed snapshot before the call.
C11_SilentNoOps == \A i \in Calls : IllegalCall(i) => SilentNoOp(i)

(* ------------------------------ C12 ----------------------------------- *)

\* C12: toggleFlag effect. When the status is Playing and the target is not
\* revealed, the result has the target unflagged if it was flagged, whatever
\* flagsRemaining is, and flagged if it was unflagged and flagsRemaining > 0.
\* In every toggleFlag result no other cell's flag, no cell's isMine,
\* isRevealed or adjacentMines, and not the status differ from the committed
\* snapshot the call started from.
C12_ToggleFlagEffect ==
    \A i \in Toggles :
        LET r == results[i]
            target == DataBefore(i)[r.pos]
        IN  /\ (r.before.status = Playing /\ ~target.isRevealed) =>
                  /\ target.isFlagged => ~DataAfter(i)[r.pos].isFlagged
                  /\ (~target.isFlagged /\ r.before.flagsRemaining > 0)
                        => DataAfter(i)[r.pos].isFlagged
            /\ \A p \in Pos :
                  /\ p # r.pos => DataAfter(i)[p].isFlagged = DataBefore(i)[p].isFlagged
                  /\ DataAfter(i)[p].isMine = DataBefore(i)[p].isMine
                  /\ DataAfter(i)[p].isRevealed = DataBefore(i)[p].isRevealed
                  /\ DataAfter(i)[p].adjacentMines = DataBefore(i)[p].adjacentMines
            /\ r.status = r.before.status

\* a flag taken off while flagsRemaining was 0, next to a cell that stays flagged
C12_Witness ==
    \E i \in Toggles :
        /\ results[i].before.status = Playing
        /\ results[i].before.flagsRemaining = 0
        /\ DataBefore(i)[results[i].pos].isFlagged
        /\ ~DataAfter(i)[results[i].pos].isFlagged
        /\ results[i].unflaggedCells = <<results[i].pos>>

(* ------------------------------ C13 ----------------------------------- *)

\* C13: flags-remaining accounting. In every committed state, so after every
\* apply() of a revealCell or toggleFlag result, flagsRemaining is the
\* configured mine count minus the number of flagged cells of the committed
\* field; a reveal that cleared flags by flood fill gives them back.
C13_FlagsRemainingAccounting ==
    Ready => flagsRemaining
               = params.mines - Cardinality(FlaggedOf(gameSnapshot.state.field))

\* the result of a reveal whose flood fill cleared a wrongly placed flag has
\* been applied
C13_Witness ==
    /\ Ready
    /\ \E i \in Reveals :
          /\ field = results[i].operatedField
          /\ results[i].unflaggedCells # <<>>
          /\ \E p \in Range(results[i].unflaggedCells) : ~DataBefore(i)[p].isMine
          /\ flagsRemaining
                = results[i].before.flagsRemaining + Len(results[i].unflaggedCells)

(* ------------------------------ C14 ----------------------------------- *)

\* C14: the delta is the exact difference of one action. For every result,
\* revealedCells with explodedCells hold exactly the cells revealed in the
\* actionSnapshot and not in the committed field before the call,
\* explodedCells exactly the mined ones among them, unflaggedCells exactly the
\* cells flagged before and not after, flaggedCells exactly the cells flagged
\* after and not before, and no list holds a position twice.
C14_DeltaIsExactDifference ==
    \A i \in Calls :
        LET r == results[i]
            newlyRevealed == RevealedOf(DataAfter(i)) \ RevealedOf(DataBefore(i))
        IN  /\ Range(r.revealedCells) \cup Range(r.explodedCells) = newlyRevealed
            /\ Range(r.explodedCells) = { p \in newlyRevealed : DataAfter(i)[p].isMine }
            /\ Range(r.unflaggedCells)
                  = FlaggedOf(DataBefore(i)) \ FlaggedOf(DataAfter(i))
            /\ Range(r.flaggedCells)
                  = FlaggedOf(DataAfter(i)) \ FlaggedOf(DataBefore(i))
            /\ NoDuplicates(r.revealedCells)
            /\ NoDuplicates(r.explodedCells)
            /\ NoDuplicates(r.unflaggedCells)
            /\ NoDuplicates(r.flaggedCells)

(* ----------------- vocabulary of the Solver's properties --------------- *)

\* the Solver has returned from a call of op
Returned(op) == pc = "solver" /\ solver.pc = "returned" /\ solver.op = op

\* the cells of the Solver's field
SolverGrid == heap[field].grid

ClosedCells == { p \in Pos : ~SolverGrid[p].isRevealed }

\* the revealed cells that show a number: not mined, adjacentMines > 0
NumberedCells ==
    { c \in Pos : /\ SolverGrid[c].isRevealed
                  /\ ~SolverGrid[c].isMine
                  /\ SolverGrid[c].adjacentMines > 0 }

\* the revealed cells that have an unrevealed neighbour
FrontierCells ==
    { c \in Pos : SolverGrid[c].isRevealed /\ Neighbours(c) \cap ClosedCells # {} }

(* ------------------------------ C15 ----------------------------------- *)

\* C15: solver soundness. For any field instance, a field of a lost game
\* included, every position solve() reports with probability 0 is not a mine
\* of the field and every position it reports with probability 1 is a mine.
C15_SolverSoundness ==
    Returned("solve") =>
        \A k \in 1 .. Len(solver.returned) :
            LET prob == solver.returned[k]
            IN  /\ prob.value = 0 => ~SolverGrid[prob.position].isMine
                /\ prob.value = 1 => SolverGrid[prob.position].isMine

(* ------------------------------ C16 ----------------------------------- *)

\* the mine layouts of the unrevealed cells under which every revealed cell
\* that is not a mine has exactly its number of mined neighbours
ConsistentLayouts ==
    LET revealedMines == { p \in Pos : SolverGrid[p].isRevealed /\ SolverGrid[p].isMine }
    IN  { layout \in SUBSET ClosedCells :
            \A c \in Pos :
                (SolverGrid[c].isRevealed /\ ~SolverGrid[c].isMine) =>
                    SolverGrid[c].adjacentMines
                        = Cardinality(Neighbours(c) \cap (layout \cup revealedMines)) }

\* the revealed numbers determine the unrevealed cell p to be safe
DeterminedSafe(p) == \A layout \in ConsistentLayouts : p \notin layout

\* C16: isGuessingState() returns true if and only if no unrevealed cell is
\* logically determined to be safe by the currently revealed numbers (no cell
\* has probability exactly 0 after full inference).
C16_GuessingState ==
    Returned("isGuessingState") =>
        (solver.returned <=> ~\E p \in ClosedCells : DeterminedSafe(p))

(* ------------------------------ C17 ----------------------------------- *)

\* the variables of a region: the unrevealed neighbours of its cells
RegionVariables(region) ==
    { v \in ClosedCells : \E c \in Range(region) : v \in Neighbours(c) }

\* the assignments of a region's variables under which every cell of the
\* region has exactly its number of mined neighbours among them
ValidAssignments(region) ==
    { assignment \in SUBSET RegionVariables(region) :
        \A c \in Range(region) :
            Cardinality(Neighbours(c) \cap assignment) = SolverGrid[c].adjacentMines }

\* value is the fraction of the region's valid assignments that mine p
IsMineFraction(value, region, p) ==
    value * Cardinality(ValidAssignments(region))
        = Cardinality({ assignment \in ValidAssignments(region) : p \in assignment })

\* C17: exhaustive region analysis. For every unrevealed cell that borders a
\* revealed numbered cell and that local inference leaves undetermined,
\* solve() reports the fraction, among the valid assignments of its region's
\* variables, of the assignments in which the cell is a mine.
C17_RegionAnalysis ==
    Returned("solve") =>
        \A p \in ClosedCells :
            (/\ Neighbours(p) \cap NumberedCells # {}
             /\ ~mapHas(solver.probabilities, createKey(p)))
            => \E k \in 1 .. Len(solver.returned) :
                  /\ solver.returned[k].position = p
                  /\ LET regions == groupConnectedRegions(heap[field],
                                                          fieldState.revealedCells)
                     IN  \E r \in 1 .. Len(regions) :
                            /\ p \in RegionVariables(regions[r])
                            /\ IsMineFraction(solver.returned[k].value, regions[r], p)

(* ------------------------------ C18 ----------------------------------- *)

\* C18: bounded enumeration. The solver has a ceiling, here of at most
\* MaxCeiling variables, and solve() on a field that has a region with more
\* variables than the ceiling ends with an explicit error.
C18_BoundedEnumeration ==
    \E ceiling \in 0 .. MaxCeiling :
        Returned("solve") =>
            LET regions == groupConnectedRegions(heap[field], fieldState.revealedCells)
            IN  (\E r \in 1 .. Len(regions) :
                    Cardinality(RegionVariables(regions[r])) > ceiling)
                => solver.threw

(* ------------------------------ C19 ----------------------------------- *)

\* two frontier cells share an unrevealed neighbour
SharesClosed(a, b) == Neighbours(a) \cap Neighbours(b) \cap ClosedCells # {}

\* the frontier cells a chain of such links reaches from those of S
RECURSIVE LinkedFrom(_)
LinkedFrom(S) ==
    LET T == S \cup { b \in FrontierCells : \E a \in S : SharesClosed(a, b) }
    IN  IF T = S THEN S ELSE LinkedFrom(T)

\* C19: region partition. createConnectedRegions() returns a partition of the
\* revealed cells that have an unrevealed neighbour: every such cell is in
\* exactly one region, no other cell is in a region, and two of them are in
\* the same region if and only if a chain of such cells, each consecutive pair
\* sharing an unrevealed neighbour, connects them.
C19_RegionPartition ==
    Returned("createConnectedRegions") =>
        LET regions == solver.returned
            regionsOf(c) == { r \in 1 .. Len(regions) : c \in Range(regions[r]) }
        IN  /\ \A r \in 1 .. Len(regions) :
                  /\ regions[r] # <<>>
                  /\ NoDuplicates(regions[r])
                  /\ Range(regions[r]) \subseteq FrontierCells
            /\ \A c \in FrontierCells : Cardinality(regionsOf(c)) = 1
            /\ \A a, b \in FrontierCells :
                  (regionsOf(a) = regionsOf(b)) <=> (b \in LinkedFrom({a}))

(* ------------------------------ C20 ----------------------------------- *)

\* the Solver is inside the pass loop of solve()
InPassLoop == solver.pc \in {"inferCertainMines", "inferCertainSafeCells", "while"}

\* every position has at most one entry, each value is 0 or 1 and each
\* position is an unrevealed cell
FactsWellFormed ==
    /\ \A j, k \in 1 .. Len(solver.probabilities) :
          solver.probabilities[j].value.position = solver.probabilities[k].value.position
              => j = k
    /\ \A k \in 1 .. Len(solver.probabilities) :
          /\ solver.probabilities[k].value.value \in {0, 1}
          /\ solver.probabilities[k].value.position \in ClosedCells

\* a step of the pass loop keeps every entry; each rule says it added a fact
\* exactly when it did, and the loop is left only after a pass whose two
\* rules added none
PassStep ==
    /\ \A k \in 1 .. Len(solver.probabilities) :
          /\ k <= Len(solver'.probabilities)
          /\ solver'.probabilities[k] = solver.probabilities[k]
    /\ solver.pc = "inferCertainMines" =>
          (solver'.certainMinesFound
              <=> Len(solver'.probabilities) > Len(solver.probabilities))
    /\ solver.pc = "inferCertainSafeCells" =>
          (solver'.certainSafeFound
              <=> Len(solver'.probabilities) > Len(solver.probabilities))
    /\ (solver.pc = "while" /\ solver'.pc # "inferCertainMines") =>
          /\ ~solver.certainMinesFound
          /\ ~solver.certainSafeFound
          /\ solver'.returned = mapValues(solver.probabilities)

\* C20: local inference reaches a fixed point and stops. The pass loop of
\* solve() ends after finitely many passes: every pass but the last adds a
\* fact, so it begins at most one pass more than the field has unrevealed
\* cells. It is left only after a pass in which neither rule added a fact,
\* each position is reported at most once, with a value that is 0 or 1 and
\* that no later pass overwrites, and every reported position is an
\* unrevealed cell.
C20_LocalInferenceFixedPoint ==
    /\ [](pc = "solver" => /\ FactsWellFormed
                           /\ solver.passes <= Cardinality(ClosedCells) + 1)
    /\ [][InPassLoop => PassStep]_vars

\* solve() has returned after three passes with a fact of the second pass: a
\* mine found after a safe cell
C20_Witness ==
    /\ Returned("solve")
    /\ solver.passes = 3
    /\ \E j, k \in 1 .. Len(solver.returned) :
          /\ j < k
          /\ solver.returned[j].value = 0
          /\ solver.returned[k].value = 1

(* ------------------------------ C21 ----------------------------------- *)

\* C21: mine placement terminates with the target count. For mines <=
\* rows*cols and a random source that yields every cell again and again,
\* every call of placeMines returns, and the field then has exactly `mines`
\* mined cells; in the loop the mined cells are the positions chosen so far
\* and as many as the counter says, so a repeated draw places nothing; a
\* further call of placeMines on the field changes no cell.
C21_PlacementTerminates ==
    /\ (pc = "placeMines") ~> (pc = "return")
    /\ [](pc = "return" => Cardinality(MinesOf(heap[0].grid)) = params.mines)
    /\ [](pc = "loop" => /\ MinesOf(heap[0].grid) = avoidSet
                         /\ Cardinality(avoidSet) = minesPlacedCount
                         /\ minesPlacedCount <= params.mines)
    /\ [][(pc = "placeMines" /\ heap[0].isMined) => heap' = heap]_vars

\* placeMines has returned from placing two mines on the 2x3 board
C21_Witness ==
    /\ pc = "return"
    /\ params = [rows |-> 2, cols |-> 3, mines |-> 2]
    /\ Cardinality(MinesOf(heap[0].grid)) = 2
    /\ heap[0].isMined

(* ------------------------------ C22 ----------------------------------- *)

\* C22: flag budget. For an engine constructed without restored data, in
\* every committed state reached by previews and apply() invocations in any
\* order, the committed field has at most params.mines flagged cells and
\* flagsRemaining is not negative; so has every actionSnapshot, the state an
\* apply() commits.
C22_FlagBudget ==
    /\ Ready => /\ Cardinality(FlaggedOf(gameSnapshot.state.field)) <= params.mines
                /\ flagsRemaining >= 0
    /\ \A i \in Calls :
          /\ Cardinality(FlaggedOf(DataAfter(i))) <= params.mines
          /\ getFlagsRemaining(results[i].resultState) >= 0

\* the budget is used up in the committed state, and a toggleFlag on an
\* unflagged, unrevealed cell of that state has set no flag
C22_Witness ==
    /\ Ready
    /\ params.mines >= 1
    /\ flagsRemaining = 0
    /\ Cardinality(FlaggedOf(gameSnapshot.state.field)) = params.mines
    /\ \E i \in Toggles :
          /\ results[i].before.status = Playing
          /\ results[i].before.flagsRemaining = 0
          /\ ~DataBefore(i)[results[i].pos].isFlagged
          /\ ~DataBefore(i)[results[i].pos].isRevealed
          /\ results[i].flaggedCells = <<>>
          /\ FlaggedOf(DataAfter(i)) = FlaggedOf(DataBefore(i))

(* ------------------------------ C23 ----------------------------------- *)

\* no cell of data is both flagged and revealed
FlagRevealExclusive(data) == FlaggedOf(data) \cap RevealedOf(data) = {}

\* C23: flag and reveal are mutually exclusive. For an engine constructed
\* without restored data, no cell is both flagged and revealed in the
\* committed field, in any field object or in any actionSnapshot, after any
\* sequence of reveal, chord and flag actions, applied in any order.
C23_FlagRevealExclusive ==
    /\ Ready => FlagRevealExclusive(gameSnapshot.state.field)
    /\ \A ref \in DOMAIN heap : FlagRevealExclusive(getFieldData(heap[ref]))
    /\ \A i \in Calls : FlagRevealExclusive(ActionSnapshot(i).state.field)

\* the result of a reveal whose flood fill went over a flagged cell has been
\* applied: the committed field shows the cell revealed and without the flag
C23_Witness ==
    /\ Ready
    /\ \E i \in Reveals :
          /\ field = results[i].operatedField
          /\ \E p \in FlaggedOf(DataBefore(i)) :
                /\ gameSnapshot.state.field[p].isRevealed
                /\ ~gameSnapshot.state.field[p].isFlagged

(* ------------------------------ C24 ----------------------------------- *)

\* the cells result i reports as exploded or shows exploded for the first time
ExplodedBy(i) ==
    Range(results[i].explodedCells)
        \cup (ExplodedOf(DataAfter(i)) \ ExplodedOf(DataBefore(i)))

\* result i is a reveal made in status Playing on a mined, unflagged target
DirectMine(i) ==
    /\ i \in Reveals
    /\ results[i].before.status = Playing
    /\ DataBefore(i)[results[i].pos].isMine
    /\ ~DataBefore(i)[results[i].pos].isFlagged

\* C24: flood fill never opens a mine. For every field object (each satisfies
\* the adjacency invariant; an object is looked at in the states up to the
\* next call, and no step changes it afterwards) and every origin without a
\* mine, the area of getAreaToReveal holds no mined cell; an ordinary reveal (of an unrevealed,
\* unflagged cell without a mine) explodes nothing; and when a result has an
\* exploded cell, it is the mined target of a direct reveal, or unflagged
\* mined neighbours of the cell of a chord whose flag count matched.
C24_FloodFillNeverOpensMine ==
    /\ LET f == heap[Len(results)]
       IN  \A p \in Pos \ MinesOf(f.grid) :
               Range(getAreaToReveal(f, p)) \cap MinesOf(f.grid) = {}
    /\ \A i \in Calls :
          /\ OrdinaryReveal(i) => ExplodedBy(i) = {}
          /\ ExplodedBy(i) # {} =>
                \/ DirectMine(i) /\ ExplodedBy(i) = {results[i].pos}
                \/ /\ Chord(i)
                   /\ ChordMatches(i)
                   /\ ExplodedBy(i) \subseteq
                         { n \in Neighbours(results[i].pos) :
                              DataBefore(i)[n].isMine /\ ~DataBefore(i)[n].isFlagged }

\* an ordinary reveal of an empty cell whose area reaches a numbered cell next
\* to a mine and explodes nothing, with a result whose mine exploded
C24_Witness ==
    /\ \E i \in Calls :
          /\ OrdinaryReveal(i)
          /\ EmptyIn(DataAfter(i), results[i].pos)
          /\ \E q \in RevealArea(DataAfter(i), results[i].pos) :
                DataAfter(i)[q].adjacentMines > 0
          /\ ExplodedBy(i) = {}
          /\ MinesOf(DataAfter(i)) \cap RevealedOf(DataAfter(i)) = {}
    /\ \E j \in Calls : ExplodedBy(j) # {}

(* ------------------------------ C25 ----------------------------------- *)

\* results i and j show the same actionSnapshot and the same actionChanges
SameResult(i, j) ==
    /\ ActionSnapshot(i) = ActionSnapshot(j)
    /\ results[i].explodedCells = results[j].explodedCells
    /\ results[i].flaggedCells = results[j].flaggedCells
    /\ results[i].unflaggedCells = results[j].unflaggedCells
    /\ results[i].handledCells = results[j].handledCells
    /\ results[i].revealedCells = results[j].revealedCells

\* C25: previews are deterministic. Two results of revealCell(p), or of
\* toggleFlag(p), made from the same committed state (field, status and
\* flagsRemaining) have equal actionSnapshot and equal actionChanges, on a
\* first click that moves a mine too; and once the engine is constructed a
\* preview draws nothing from the random source: the placeMines of a first
\* click has no position to choose on the clone of any committed field.
C25_PreviewsDeterministic ==
    /\ \A i, j \in Calls :
          (/\ results[i].op = results[j].op
           /\ results[i].pos = results[j].pos
           /\ results[i].before = results[j].before)
          => SameResult(i, j)
    /\ Ready =>
          placeMinesOutcomes(cloneSelf(heap, field, NewRef).heap[NewRef]) = {{}}

\* two first clicks on the same mine of the field the constructor made, none
\* applied: both moved the mine to the same cell
C25_Witness ==
    /\ Ready
    /\ field = 0
    /\ status = Idle
    /\ \E i, j \in Reveals :
          /\ i < j
          /\ Relocated(i)
          /\ Relocated(j)
          /\ results[i].pos = results[j].pos
          /\ MinesOf(DataAfter(i)) # MinesOf(DataBefore(i))
          /\ SameResult(i, j)

(* ------------------------------ C26 ----------------------------------- *)

\* C26: no relocation target. When the status is Idle, the target of
\* revealCell is a mine and every cell of the field is mined
\* (mines = rows*cols), the result of that revealCell has status Lost.
C26_NoRelocationTarget ==
    \A i \in Reveals :
        (/\ results[i].before.status = Idle
         /\ DataBefore(i)[results[i].pos].isMine
         /\ MinesOf(DataBefore(i)) = Pos)
        => results[i].status = Lost

====
